---- MODULE Spec2Model ----
(***************************************************************************)
(* machine-hash: hardware attribute collector (HardwareInfo::collect) and  *)
(* fingerprint derivation (HardwareInfo::generate_unique_code).            *)
(*                                                                         *)
(* Strings are modelled as sequences of their UTF-8 bytes (all model       *)
(* strings are ASCII, so one byte per character).  A byte is 0..255.       *)
(***************************************************************************)
EXTENDS Integers, Sequences, FiniteSets, TLC

(***************************************************************************)
(* Byte strings                                                            *)
(***************************************************************************)

\* Concatenation of a sequence of byte strings, left to right.
RECURSIVE Flatten(_)
Flatten(chunks) ==
    IF chunks = <<>> THEN <<>> ELSE Head(chunks) \o Flatten(Tail(chunks))

\* Rust's Ord for String / str::cmp: byte-wise lexicographic "a < b".
RECURSIVE StrLess(_, _)
StrLess(a, b) ==
    IF b = <<>> THEN FALSE
    ELSE IF a = <<>> THEN TRUE
    ELSE IF Head(a) # Head(b) THEN Head(a) < Head(b)
    ELSE StrLess(Tail(a), Tail(b))

\* str::starts_with
StartsWith(s, prefix) ==
    /\ Len(s) >= Len(prefix)
    /\ SubSeq(s, 1, Len(prefix)) = prefix

(***************************************************************************)
(* MD5 (the md5 crate's Md5::new / update / finalize), RFC 1321.           *)
(* A 32-bit word is a pair <<hi, lo>> of 16-bit halves, so that every      *)
(* intermediate value stays inside the model checker's integer range and   *)
(* all arithmetic is exactly modulo 2^32.                                  *)
(***************************************************************************)

Half == 65536

KHi == <<55146, 59591, 9248, 49597, 62844, 18311, 43056, 64838, 27008, 35652, 65535, 35164, 27536, 64920, 42617, 18868, 63006, 49216, 9822, 59830, 54831, 580, 55457, 59347, 8673, 49975, 62677, 17754, 43491, 64751, 26479, 36138, 65530, 34673, 28061, 64997, 42174, 19422, 63163, 48831, 10395, 60065, 54511, 1160, 55764, 59099, 8098, 50348, 62505, 17194, 43924, 64659, 25947, 36620, 65519, 34180, 28584, 65068, 41729, 19976, 63315, 48442, 10967, 60294>>
KLo == <<42104, 46934, 28891, 52974, 4015, 50730, 17939, 38145, 39128, 63407, 23473, 55230, 4386, 29075, 17294, 2081, 9570, 45888, 23121, 51114, 4189, 5203, 59009, 64456, 52710, 2006, 3463, 5357, 59653, 41976, 729, 19594, 14658, 63105, 24866, 14348, 59972, 53161, 19296, 48240, 32454, 10234, 12421, 7429, 53305, 39397, 31992, 22117, 8772, 65431, 9127, 41017, 22979, 52370, 62589, 24017, 32335, 59104, 17172, 4513, 32386, 62005, 53947, 54161>>
ShiftAmounts == <<7, 12, 17, 22, 7, 12, 17, 22, 7, 12, 17, 22, 7, 12, 17, 22, 5, 9, 14, 20, 5, 9, 14, 20, 5, 9, 14, 20, 5, 9, 14, 20, 4, 11, 16, 23, 4, 11, 16, 23, 4, 11, 16, 23, 4, 11, 16, 23, 6, 10, 15, 21, 6, 10, 15, 21, 6, 10, 15, 21, 6, 10, 15, 21>>

\* Initial chaining value A, B, C, D = 67452301, efcdab89, 98badcfe, 10325476.
MD5Init == << <<26437, 8961>>, <<61389, 43913>>, <<39098, 56574>>, <<4146, 21622>> >>

\* 2^n for n in 0..16
Pow2(n) == << 1, 2, 4, 8, 16, 32, 64, 128, 256, 512, 1024, 2048, 4096, 8192,
              16384, 32768, 65536 >>[n + 1]

Add32(a, b) ==
    LET lo == a[2] + b[2]
        hi == a[1] + b[1] + (lo \div Half)
    IN << hi % Half, lo % Half >>

RECURSIVE RotL(_, _)
RotL(w, s) ==
    IF s >= 16 THEN RotL(<<w[2], w[1]>>, s - 16)
    ELSE IF s = 0 THEN w
    ELSE LET p == Pow2(s)
             q == Pow2(16 - s)
         IN << ((w[1] * p) % Half) + (w[2] \div q),
               ((w[2] * p) % Half) + (w[1] \div q) >>

\* The four round functions, bit by bit over n bits:
\*   1: F = (x & y) | (~x & z)    2: G = (x & z) | (y & ~z)
\*   3: H = x ^ y ^ z             4: I = y ^ (x | ~z)
RECURSIVE MixBits(_, _, _, _, _)
MixBits(r, x, y, z, n) ==
    IF n = 0 THEN 0
    ELSE LET bx == x % 2
             by == y % 2
             bz == z % 2
             bit == CASE r = 1 -> IF bx = 1 THEN by ELSE bz
                      [] r = 2 -> IF bz = 1 THEN bx ELSE by
                      [] r = 3 -> (bx + by + bz) % 2
                      [] OTHER -> (by + (IF bx = 1 \/ bz = 0 THEN 1 ELSE 0)) % 2
         IN bit + 2 * MixBits(r, x \div 2, y \div 2, z \div 2, n - 1)

\* The round functions on 4-bit digits, tabulated once.
MixTable ==
    [r \in 1..4 |->
        [k \in 1..4096 |->
            MixBits(r, (k - 1) \div 256, ((k - 1) \div 16) % 16, (k - 1) % 16, 4)]]

\* A round function on 16-bit values, four bits at a time.
Mix16(r, x, y, z) ==
    LET t == MixTable[r]
        d(v, k) == (v \div Pow2(4 * k)) % 16
        m(k) == t[256 * d(x, k) + 16 * d(y, k) + d(z, k) + 1]
    IN m(0) + 16 * m(1) + 256 * m(2) + 4096 * m(3)

Mix32(r, x, y, z) ==
    << Mix16(r, x[1], y[1], z[1]), Mix16(r, x[2], y[2], z[2]) >>

\* Little-endian 32-bit word j (0-based) of a 64-byte block.
BlockWord(block, j) ==
    << block[4*j + 3] + 256 * block[4*j + 4],
       block[4*j + 1] + 256 * block[4*j + 2] >>

\* Step i (0..63) of the compression of one block, on working state st.
MD5Step(st, block, i) ==
    LET r == (i \div 16) + 1
        g == CASE r = 1 -> i
               [] r = 2 -> (5*i + 1) % 16
               [] r = 3 -> (3*i + 5) % 16
               [] OTHER -> (7*i) % 16
        f == Mix32(r, st[2], st[3], st[4])
        sum == Add32(Add32(st[1], f),
                     Add32(<<KHi[i+1], KLo[i+1]>>, BlockWord(block, g)))
    IN << st[4], Add32(st[2], RotL(sum, ShiftAmounts[i+1])), st[2], st[3] >>

\* Steps i..j-1, in order.  (The test on the state is always true; its
\* purpose is that each step's value is computed before the next step.)
RECURSIVE MD5Steps(_, _, _, _)
MD5Steps(st, block, i, j) ==
    IF st[2][1] >= Half \/ i = j THEN st
    ELSE MD5Steps(MD5Step(st, block, i), block, i + 1, j)

\* Round r (0..3) of one block: sixteen steps.
MD5Round(st, block, r) == MD5Steps(st, block, 16 * r, 16 * r + 16)

\* The chaining value after the block: the old one plus the working state.
MD5Chain(cv, st) ==
    << Add32(cv[1], st[1]), Add32(cv[2], st[2]),
       Add32(cv[3], st[3]), Add32(cv[4], st[4]) >>

MD5Compress(cv, block) ==
    MD5Chain(cv, MD5Round(MD5Round(MD5Round(MD5Round(cv, block, 0), block, 1),
                                   block, 2), block, 3))

\* The bit length 8 * n of a message of n bytes as a 64-bit little-endian
\* integer, taken byte by byte from n so that no intermediate value leaves
\* the integers of the checker (n is the length of a sequence, below 2^31).
MD5Length(n) ==
    << (n % 32) * 8, (n \div 32) % 256, (n \div 8192) % 256,
       (n \div 2097152) % 256, (n \div 536870912) % 256, 0, 0, 0 >>

\* Padding: 0x80, zeros up to 56 mod 64, then the bit length as 64-bit LE.
MD5Pad(msg) ==
    LET n == Len(msg)
        z == (119 - (n % 64)) % 64
    IN msg \o <<128>> \o [k \in 1..z |-> 0] \o MD5Length(n)

RECURSIVE MD5Blocks(_, _)
MD5Blocks(cv, padded) ==
    IF cv[1][1] >= Half \/ padded = <<>> THEN cv
    ELSE MD5Blocks(MD5Compress(cv, SubSeq(padded, 1, 64)),
                   SubSeq(padded, 65, Len(padded)))

WordBytes(w) == << w[2] % 256, w[2] \div 256, w[1] % 256, w[1] \div 256 >>

\* The chaining value as 16 bytes.
MD5Output(cv) ==
    WordBytes(cv[1]) \o WordBytes(cv[2]) \o WordBytes(cv[3]) \o WordBytes(cv[4])

\* The 16-byte digest of msg.
MD5(msg) == MD5Output(MD5Blocks(MD5Init, MD5Pad(msg)))

(***************************************************************************)
(* hex::encode: two lowercase hex characters per byte.                     *)
(***************************************************************************)
\* Variant: uppercase digits (hex::encode_upper).
HexDigitUpper(n) == IF n < 10 THEN 48 + n ELSE 55 + n

HexDigit(n) == IF n < 10 THEN 48 + n ELSE 87 + n

RECURSIVE HexEncode(_)
HexEncode(bytes) ==
    IF bytes = <<>> THEN <<>>
    ELSE << HexDigit(Head(bytes) \div 16), HexDigit(Head(bytes) % 16) >>
         \o HexEncode(Tail(bytes))

(***************************************************************************)
(* String literals of the program and of the modelled machines.            *)
(***************************************************************************)
Colon == 58
Dash == 45
Separator == 255

\* "cc:cc:cc:cc:cc:cc" for the character c
MacOf(c) == << c, c, Colon, c, c, Colon, c, c, Colon, c, c, Colon, c, c, Colon, c, c >>

ZeroMac == MacOf(48)            \* "00:00:00:00:00:00"
MacA == MacOf(97)               \* "aa:aa:aa:aa:aa:aa"
MacB == MacOf(98)               \* "bb:bb:bb:bb:bb:bb"
MacC == MacOf(99)               \* "cc:cc:cc:cc:cc:cc"

en0 == << 101, 110, 48 >>
eth0 == << 101, 116, 104, 48 >>
enp0s1 == << 101, 110, 112, 48, 115, 49 >>
wlan0 == << 119, 108, 97, 110, 48 >>

\* The message of the error generate_unique_code returns (the spec's
\* MissingCriticalData).
MissingCriticalData == "Critical hardware information missing"

(***************************************************************************)
(* HardwareInfo::generate_unique_code                                      *)
(***************************************************************************)

\* Variant: the interface name is hashed along with the MAC.
RECURSIVE InterfaceUpdatesNamed(_)
InterfaceUpdatesNamed(interfaces) ==
    IF interfaces = <<>> THEN <<>>
    ELSE LET interface == Head(interfaces)
         IN (IF interface.is_up /\ interface.mac_address # <<>>
             THEN << interface.name \o interface.mac_address >> ELSE <<>>)
            \o InterfaceUpdatesNamed(Tail(interfaces))

\* The loop over self.network_interfaces: one update per interface that is
\* up and has a non-empty MAC, in list order.
RECURSIVE InterfaceUpdates(_)
InterfaceUpdates(interfaces) ==
    IF interfaces = <<>> THEN <<>>
    ELSE LET interface == Head(interfaces)
         IN (IF interface.is_up /\ interface.mac_address # <<>>
             THEN << interface.mac_address >> ELSE <<>>)
            \o InterfaceUpdates(Tail(interfaces))

\* Variant: the product name is left out of the secondary string.
secondary_info_no_product(self) ==
    self.cpu_physical_id \o <<Colon>> \o self.disk_model

\* format!("{}:{}:{}", cpu_physical_id, motherboard_product_name, disk_model)
secondary_info(self) ==
    self.cpu_physical_id \o <<Colon>> \o self.motherboard_product_name
        \o <<Colon>> \o self.disk_model

\* Variant: serial and UUID are fed smaller one first (a combination that
\* does not depend on which is which).
HasherUpdatesSorted(self) ==
    (IF StrLess(self.motherboard_uuid, self.motherboard_serial)
     THEN << self.motherboard_uuid, self.motherboard_serial >>
     ELSE << self.motherboard_serial, self.motherboard_uuid >>)
        \o InterfaceUpdates(self.network_interfaces)
        \o << <<Separator>>, secondary_info(self) >>

\* Variant: the separator byte is fed after the secondary string.
HasherUpdatesSeparatorLast(self) ==
    << self.motherboard_serial, self.motherboard_uuid >>
        \o InterfaceUpdates(self.network_interfaces)
        \o << secondary_info(self), <<Separator>> >>

\* The data of the hasher.update calls, in call order.
HasherUpdates(self) ==
    << self.motherboard_serial, self.motherboard_uuid >>
        \o InterfaceUpdates(self.network_interfaces)
        \o << <<Separator>>, secondary_info(self) >>

\* format!("{}-{}-{}-{}", &hash[0..4], &hash[4..8], &hash[8..12], &hash[12..16])
FormatCode(hash) ==
    SubSeq(hash, 1, 4) \o <<Dash>> \o SubSeq(hash, 5, 8) \o <<Dash>>
        \o SubSeq(hash, 9, 12) \o <<Dash>> \o SubSeq(hash, 13, 16)

\* Variant: the gate uses && and fails only when both fields are empty.
generate_unique_code_both(self) ==
    IF self.motherboard_serial = <<>> /\ self.motherboard_uuid = <<>>
    THEN [ok |-> FALSE, code |-> <<>>, err |-> MissingCriticalData,
          hashed |-> FALSE, updates |-> <<>>, digest |-> <<>>]
    ELSE LET updates == HasherUpdates(self)
             result == MD5(Flatten(updates))
             hash == HexEncode(result)
         IN [ok |-> TRUE, code |-> FormatCode(hash), err |-> "",
             hashed |-> TRUE, updates |-> updates, digest |-> result]

\* The outcome of one call: ok/code/err are the returned Result; hashed,
\* updates and digest record what the call did with the hasher.
generate_unique_code(self) ==
    IF self.motherboard_serial = <<>> \/ self.motherboard_uuid = <<>>
    THEN [ok |-> FALSE, code |-> <<>>, err |-> MissingCriticalData,
          hashed |-> FALSE, updates |-> <<>>, digest |-> <<>>]
    ELSE LET updates == HasherUpdates(self)
             result == MD5(Flatten(updates))
             hash == HexEncode(result)
         IN [ok |-> TRUE, code |-> FormatCode(hash), err |-> "",
             hashed |-> TRUE, updates |-> updates, digest |-> result]


(***************************************************************************)
(* HardwareInfo::collect: network interface selection                      *)
(***************************************************************************)

\* Variant: the allow-list read as prefixes (en*, eth*, wl*).
is_primary_interface_prefix(name) ==
    \/ StartsWith(name, <<101, 110>>)
    \/ StartsWith(name, <<101, 116, 104>>)
    \/ StartsWith(name, <<119, 108>>)

is_primary_interface(name) == name \in { en0, eth0, enp0s1 }

detect_interface_type(name) ==
    IF StartsWith(name, <<101, 110>>) \/ StartsWith(name, <<101, 116, 104>>)
    THEN "Ethernet"
    ELSE IF StartsWith(name, <<119, 108>>) \/ StartsWith(name, <<119, 105, 102, 105>>)
    THEN "Wi-Fi"
    ELSE "Unknown"

\* The for loop over sys.networks(), visiting the interfaces in the order
\* the map yields them.
RECURSIVE CollectLoop(_)
CollectLoop(order) ==
    IF order = <<>> THEN <<>>
    ELSE LET network == Head(order)
             mac == network.mac_address
         IN (IF is_primary_interface(network.name)
                /\ mac # <<>> /\ mac # ZeroMac
             THEN << [name |-> network.name, mac_address |-> mac, is_up |-> TRUE,
                      interface_type |-> detect_interface_type(network.name)] >>
             ELSE <<>>)
            \o CollectLoop(Tail(order))

\* if network_interfaces.len() > 1 { network_interfaces.truncate(1); }
TruncateOne(v) == IF Len(v) > 1 THEN SubSeq(v, 1, 1) ELSE v

\* Insertion of e into the sorted vector v after every element not greater
\* than it (sort_by is stable).
RECURSIVE InsertByMac(_, _)
InsertByMac(e, v) ==
    IF v = <<>> THEN << e >>
    ELSE IF StrLess(e.mac_address, Head(v).mac_address) THEN << e >> \o v
    ELSE << Head(v) >> \o InsertByMac(e, Tail(v))

\* network_interfaces.sort_by(|a, b| a.mac_address.cmp(&b.mac_address))
RECURSIVE SortByMac(_)
SortByMac(v) ==
    IF v = <<>> THEN <<>>
    ELSE InsertByMac(v[Len(v)], SortByMac(SubSeq(v, 1, Len(v) - 1)))

\* Lines 39-58 of collect for one enumeration order.
SelectInterfaces(order) == SortByMac(TruncateOne(CollectLoop(order)))

\* Every order in which the map of interfaces can be iterated.
Orders(S) ==
    { o \in [1..Cardinality(S) -> S] : \A i, j \in DOMAIN o : i # j => o[i] # o[j] }

(***************************************************************************)
(* HardwareInfo::collect: the probes, in the order the struct literal      *)
(* evaluates its field initialisers.                                       *)
(***************************************************************************)
FieldOrder ==
    << "cpu_info", "motherboard_serial", "disk_serial", "mac_address", "os_info",
       "memory_serial", "bios_version", "cpu_physical_id", "disk_model",
       "disk_firmware", "motherboard_uuid", "motherboard_manufacturer",
       "motherboard_product_name", "bios_vendor", "bios_release_date" >>

FieldNames == { FieldOrder[i] : i \in DOMAIN FieldOrder }

OSes == { "linux", "macos", "windows" }

\* What the initialiser of a field reads on each target_os: a file
\* (fs::read_to_string), a process (Command::output), or nothing fallible.
SourceKind(target_os, field) ==
    IF field = "os_info" THEN "none"
    ELSE IF target_os = "linux"
    THEN (IF field \in { "disk_serial", "mac_address", "memory_serial", "disk_model" }
          THEN "command" ELSE "file")
    ELSE IF target_os = "macos"
              /\ field \in { "motherboard_manufacturer", "bios_vendor" }
    THEN "none"
    ELSE "command"

AppleInc == << 65, 112, 112, 108, 101, 32, 73, 110, 99, 46 >>

(***************************************************************************)
(* The str methods the probes apply to the text of their source            *)
(***************************************************************************)
LF == 10
CR == 13
Space == 32
Equals == 61

\* char::is_whitespace on the ASCII range.
IsWhitespace(c) == c \in { 9, 10, 11, 12, 13, 32 }

RECURSIVE TrimStart(_)
TrimStart(s) ==
    IF s # <<>> /\ IsWhitespace(Head(s)) THEN TrimStart(Tail(s)) ELSE s

RECURSIVE TrimEnd(_)
TrimEnd(s) ==
    IF s # <<>> /\ IsWhitespace(s[Len(s)]) THEN TrimEnd(SubSeq(s, 1, Len(s) - 1)) ELSE s

\* str::trim
Trim(s) == TrimEnd(TrimStart(s))

\* Position of the first occurrence of byte d in s, 0 when there is none.
RECURSIVE IndexOf(_, _, _)
IndexOf(s, d, i) ==
    IF i > Len(s) THEN 0
    ELSE IF s[i] = d THEN i
    ELSE IndexOf(s, d, i + 1)

\* str::split(d): the pieces between the occurrences of d.
RECURSIVE Split(_, _)
Split(s, d) ==
    IF IndexOf(s, d, 1) = 0 THEN << s >>
    ELSE << SubSeq(s, 1, IndexOf(s, d, 1) - 1) >>
         \o Split(SubSeq(s, IndexOf(s, d, 1) + 1, Len(s)), d)

\* Iterator::nth(n).unwrap_or(""), n counted from 0.
NthOrEmpty(items, n) == IF n + 1 <= Len(items) THEN items[n + 1] ELSE <<>>

\* A line without its terminator: "\n", or "\r\n".
StripCR(line) ==
    IF line # <<>> /\ line[Len(line)] = CR THEN SubSeq(line, 1, Len(line) - 1) ELSE line

RECURSIVE StripCRs(_)
StripCRs(pieces) ==
    IF pieces = <<>> THEN <<>>
    ELSE << StripCR(Head(pieces)) >> \o StripCRs(Tail(pieces))

\* str::lines: every "\n"-terminated line, then the unterminated rest when
\* it is not empty.
Lines(text) ==
    StripCRs(SubSeq(Split(text, LF), 1, Len(Split(text, LF)) - 1))
    \o (IF Split(text, LF)[Len(Split(text, LF))] = <<>> THEN <<>>
        ELSE << Split(text, LF)[Len(Split(text, LF))] >>)

\* str::contains
Contains(s, key) ==
    \E i \in 1..(Len(s) - Len(key) + 1) : SubSeq(s, i, i + Len(key) - 1) = key

\* Whether a line is the one a probe designates.
Matches(line, how, key) ==
    IF how = "starts_with" THEN StartsWith(line, key) ELSE Contains(line, key)

\* Iterator::find on the lines: << line >> for the first matching line,
\* << >> for None.
RECURSIVE Find(_, _, _)
Find(lines, how, key) ==
    IF lines = <<>> THEN <<>>
    ELSE IF Matches(Head(lines), how, key) THEN << Head(lines) >>
    ELSE Find(Tail(lines), how, key)

\* Option<&str>::unwrap_or("") and Option<String>::unwrap_or_default().
UnwrapOrEmpty(opt) == IF opt = <<>> THEN <<>> ELSE opt[1]

\* str::split_whitespace: the maximal runs of non-whitespace.
RECURSIVE SplitWhitespace(_, _)
SplitWhitespace(s, word) ==
    IF s = <<>> THEN (IF word = <<>> THEN <<>> ELSE << word >>)
    ELSE IF IsWhitespace(Head(s))
    THEN (IF word = <<>> THEN <<>> ELSE << word >>) \o SplitWhitespace(Tail(s), <<>>)
    ELSE SplitWhitespace(Tail(s), Append(word, Head(s)))

(***************************************************************************)
(* The extraction each get_* function applies, per target_os               *)
(***************************************************************************)
\* text.trim()
WholeTrimmed == [kind |-> "whole"]
\* lines().find(how key).unwrap_or("").split(delim).nth(1).unwrap_or(""),
\* followed by trim() where the code has it.
KeyValue(how, key, delim, trim) ==
    [kind |-> "key", how |-> how, key |-> key, delim |-> delim, trim |-> trim]
\* lines().nth(n).unwrap_or("").trim()
LineTrimmed(n) == [kind |-> "line", n |-> n]
\* lines().find(contains key).and_then(split_whitespace().nth(n)).unwrap_or("")
KeyToken(key, n) == [kind |-> "key_token", key |-> key, n |-> n]
\* lines().nth(line).unwrap_or("").split_whitespace().nth(n).unwrap_or("")
LineToken(line, n) == [kind |-> "line_token", line |-> line, n |-> n]
\* Ok(String::from(..)) and format!(..): nothing is read.
NoSource == [kind |-> "none"]

Key_model_name == << 109, 111, 100, 101, 108, 32, 110, 97, 109, 101 >>
Key_physical_id == << 112, 104, 121, 115, 105, 99, 97, 108, 32, 105, 100 >>
Key_ID_SERIAL == << 73, 68, 95, 83, 69, 82, 73, 65, 76, 61 >>
Key_link_ether == << 108, 105, 110, 107, 47, 101, 116, 104, 101, 114 >>
Key_ether == << 101, 116, 104, 101, 114 >>
Key_Serial_Number == << 83, 101, 114, 105, 97, 108, 32, 78, 117, 109, 98, 101, 114 >>
Key_Serial_Number_Colon == << 83, 101, 114, 105, 97, 108, 32, 78, 117, 109, 98, 101, 114, 58 >>
Key_Boot_ROM_Version == << 66, 111, 111, 116, 32, 82, 79, 77, 32, 86, 101, 114, 115, 105, 111, 110 >>
Key_Device_Media_Name == << 68, 101, 118, 105, 99, 101, 32, 47, 32, 77, 101, 100, 105, 97, 32, 78, 97, 109, 101 >>
Key_Firmware_Version == << 70, 105, 114, 109, 119, 97, 114, 101, 32, 86, 101, 114, 115, 105, 111, 110 >>
Key_Hardware_UUID == << 72, 97, 114, 100, 119, 97, 114, 101, 32, 85, 85, 73, 68 >>
Key_Model_Identifier == << 77, 111, 100, 101, 108, 32, 73, 100, 101, 110, 116, 105, 102, 105, 101, 114 >>

LinuxRule(field) ==
    CASE field = "cpu_info" -> KeyValue("starts_with", Key_model_name, Colon, TRUE)
      [] field = "cpu_physical_id" -> KeyValue("starts_with", Key_physical_id, Colon, TRUE)
      [] field = "disk_serial" -> KeyValue("starts_with", Key_ID_SERIAL, Equals, FALSE)
      [] field = "mac_address" -> KeyToken(Key_link_ether, 1)
      [] field = "memory_serial" -> KeyValue("contains", Key_Serial_Number_Colon, Colon, TRUE)
      [] field = "disk_model" -> LineTrimmed(0)
      [] field = "os_info" -> NoSource
      [] OTHER -> WholeTrimmed

MacosRule(field) ==
    CASE field \in { "cpu_info", "cpu_physical_id" } -> WholeTrimmed
      [] field \in { "motherboard_serial", "disk_serial" } ->
            KeyValue("contains", Key_Serial_Number, Colon, TRUE)
      [] field = "mac_address" -> KeyToken(Key_ether, 1)
      [] field = "memory_serial" -> KeyValue("contains", Key_Serial_Number_Colon, Colon, TRUE)
      [] field \in { "bios_version", "bios_release_date" } ->
            KeyValue("contains", Key_Boot_ROM_Version, Colon, TRUE)
      [] field = "disk_model" -> KeyValue("contains", Key_Device_Media_Name, Colon, TRUE)
      [] field = "disk_firmware" -> KeyValue("contains", Key_Firmware_Version, Colon, TRUE)
      [] field = "motherboard_uuid" -> KeyValue("contains", Key_Hardware_UUID, Colon, TRUE)
      [] field = "motherboard_product_name" ->
            KeyValue("contains", Key_Model_Identifier, Colon, TRUE)
      [] OTHER -> NoSource

WindowsRule(field) ==
    CASE field = "mac_address" -> LineToken(0, 0)
      [] field = "os_info" -> NoSource
      [] OTHER -> LineTrimmed(1)

ProbeRule(target_os, field) ==
    CASE target_os = "linux" -> LinuxRule(field)
      [] target_os = "macos" -> MacosRule(field)
      [] OTHER -> WindowsRule(field)

ExtractKeyValue(rule, text) ==
    IF rule.trim
    THEN Trim(NthOrEmpty(Split(UnwrapOrEmpty(Find(Lines(text), rule.how, rule.key)),
                               rule.delim), 1))
    ELSE NthOrEmpty(Split(UnwrapOrEmpty(Find(Lines(text), rule.how, rule.key)),
                          rule.delim), 1)

ExtractKeyToken(rule, text) ==
    IF Find(Lines(text), "contains", rule.key) = <<>> THEN <<>>
    ELSE NthOrEmpty(SplitWhitespace(Find(Lines(text), "contains", rule.key)[1], <<>>),
                    rule.n)

\* The String a get_* function returns in Ok for the text of its source.
Extract(rule, text) ==
    CASE rule.kind = "whole" -> Trim(text)
      [] rule.kind = "key" -> ExtractKeyValue(rule, text)
      [] rule.kind = "line" -> Trim(NthOrEmpty(Lines(text), rule.n))
      [] rule.kind = "key_token" -> ExtractKeyToken(rule, text)
      [] rule.kind = "line_token" ->
            NthOrEmpty(SplitWhitespace(NthOrEmpty(Lines(text), rule.line), <<>>), rule.n)

\* The value a field initialiser yields when its source can be read; the
\* machine holds the text of each source, and what sys.name() and
\* sys.os_version() return (<< >> for None, << s >> for Some(s)).
ProbeValue(target_os, field, machine) ==
    IF field = "os_info"
    THEN UnwrapOrEmpty(machine.os_name) \o << Space >> \o UnwrapOrEmpty(machine.os_version)
    ELSE IF target_os = "macos"
              /\ field \in { "motherboard_manufacturer", "bios_vendor" }
    THEN AppleInc
    ELSE Extract(ProbeRule(target_os, field), machine[field])

\* The error `?` propagates out of collect when a source cannot be read: the
\* std::io::Error of the failed call, boxed.
ProbeError(target_os, field) ==
    [type |-> "std::io::Error", field |-> field, source |-> SourceKind(target_os, field)]

(***************************************************************************)
(* Bounded inputs                                                          *)
(***************************************************************************)
MaxCalls == 2       \* calls of generate_unique_code on one snapshot
MaxRuns == 2        \* runs of main on one machine
MaxInterfaces == 3  \* interfaces a machine exposes

NetworkInfo(name, mac, up) ==
    [name |-> name, mac_address |-> mac, is_up |-> up,
     interface_type |-> detect_interface_type(name)]

\* A HardwareInfo value; the fields not listed are fixed.
HardwareInfo(serial, uuid, interfaces, cpu_id, product, model, dserial) ==
    [cpu_info |-> <<99>>, motherboard_serial |-> serial, disk_serial |-> dserial,
     mac_address |-> MacC, os_info |-> <<79, 32, 49>>, memory_serial |-> <<>>,
     bios_version |-> <<118>>, cpu_physical_id |-> cpu_id, disk_model |-> model,
     disk_firmware |-> <<>>, motherboard_uuid |-> uuid,
     motherboard_manufacturer |-> <<109>>, motherboard_product_name |-> product,
     bios_vendor |-> <<>>, bios_release_date |-> <<>>,
     network_interfaces |-> interfaces]

\* "", "a", "aa", "b"
SerialValues == { <<>>, <<97>>, <<97, 97>>, <<98>> }
\* "0", "0:"
CpuIdValues == { <<48>>, <<48, Colon>> }
\* "", ":"
ProductValues == { <<>>, <<Colon>> }
\* "", "d"
DiskModelValues == { <<>>, <<100>> }
\* "", "x"
DiskSerialValues == { <<>>, <<120>> }

InterfaceLists ==
    { <<>>,
      << NetworkInfo(en0, MacA, TRUE) >>,
      << NetworkInfo(wlan0, MacA, TRUE) >>,
      << NetworkInfo(en0, MacA, FALSE) >>,
      << NetworkInfo(en0, <<>>, TRUE) >>,
      << NetworkInfo(en0, MacA, TRUE), NetworkInfo(eth0, MacB, TRUE) >> }

Snapshots ==
    { HardwareInfo(serial, uuid, interfaces, cpu_id, product, model, dserial) :
        serial \in SerialValues, uuid \in SerialValues,
        interfaces \in InterfaceLists, cpu_id \in CpuIdValues,
        product \in ProductValues, model \in DiskModelValues,
        dserial \in DiskSerialValues }

\* The interfaces a machine may expose (name, MAC).
Candidates ==
    { [name |-> en0, mac_address |-> MacA],
      [name |-> eth0, mac_address |-> MacB],
      [name |-> wlan0, mac_address |-> MacC],
      [name |-> enp0s1, mac_address |-> ZeroMac] }

\* The text a source holds when it reports value the way the probe's rule
\* expects it: a one-line file, a key line after another line, a value
\* under header lines, a column after the key.
SourceText(rule, value) ==
    CASE rule.kind = "whole" -> value \o << LF >>
      [] rule.kind = "key" ->
            << 120, LF >> \o rule.key
            \o (IF rule.key[Len(rule.key)] = rule.delim THEN <<>> ELSE << rule.delim >>)
            \o (IF rule.trim THEN << Space >> ELSE <<>>)
            \o value \o << LF >>
      [] rule.kind = "line" ->
            Flatten([i \in 1..rule.n |-> << 104, Space, CR, LF >>])
            \o value \o << Space, CR, LF >>
      [] rule.kind = "key_token" ->
            << 120, LF, Space, Space >> \o rule.key \o << Space >> \o value
            \o << Space, 98, LF >>
      [] rule.kind = "line_token" ->
            Flatten([i \in 1..rule.line |-> << 104, Space, CR, LF >>])
            \o value \o << Space, 100, CR, LF >>
      [] OTHER -> <<>>

\* What the sources of a healthy machine report.
BaseValues ==
    [cpu_info |-> <<99>>, motherboard_serial |-> <<83>>, disk_serial |-> <<120>>,
     mac_address |-> MacC, os_info |-> <<>>, memory_serial |-> <<>>,
     bios_version |-> <<118>>, cpu_physical_id |-> <<48>>, disk_model |-> <<100>>,
     disk_firmware |-> <<>>, motherboard_uuid |-> <<85>>,
     motherboard_manufacturer |-> <<109>>, motherboard_product_name |-> <<112>>,
     bios_vendor |-> <<>>, bios_release_date |-> <<>>]

\* A machine: the text of every source, and the OS name and version.
Machine(target_os, values, os_name, os_version) ==
    [f \in FieldNames \cup { "os_name", "os_version" } |->
        IF f = "os_name" THEN os_name
        ELSE IF f = "os_version" THEN os_version
        ELSE SourceText(ProbeRule(target_os, f), values[f])]

\* The machines of the runs: a healthy one, one whose board reports no
\* serial, and one whose disk serial line ends in a blank and whose OS
\* reports no version.
Machines(target_os) ==
    { Machine(target_os, BaseValues, << <<79>> >>, << <<49>> >>),
      Machine(target_os, [BaseValues EXCEPT !.motherboard_serial = <<>>],
              << <<79>> >>, << <<49>> >>),
      Machine(target_os, [BaseValues EXCEPT !.disk_serial = <<120, Space>>],
              << <<79>> >>, <<>>) }

\* The values a source may report for a field: "", "0", " 0 ", "0:1",
\* "0=1", "a b".
ProbeValues ==
    { <<>>, <<48>>, <<Space, 48, Space>>, <<48, Colon, 49>>, <<48, Equals, 49>>,
      <<97, Space, 98>> }

\* The texts a probe is given: those values laid out for its rule, an empty
\* output, an output without the designated line and, for a key/value rule,
\* the designated line cut before its value.
ProbeTexts(rule) ==
    { SourceText(rule, v) : v \in ProbeValues }
    \cup { <<>>, << 120, LF >> }
    \cup (IF rule.kind = "key"
          THEN { SubSeq(rule.key, 1, Len(rule.key) - 1) \o << LF >> }
          ELSE {})

(***************************************************************************)
(* State                                                                   *)
(***************************************************************************)
VARIABLES
    target_os,          \* the OS the program was built for
    networks,           \* the machine: interfaces sys.networks() holds
    hw,                 \* the machine: what the probed sources report
    run,                \* number of the current run of main
    pc,                 \* where the current run is
    enumerated,         \* the order sys.networks() was iterated in this run
    network_interfaces, \* collect's local vector
    idx,                \* next field initialiser of the struct literal
    fields,             \* values of the initialisers evaluated so far
    invoked,            \* how often each initialiser ran in this run
    collect_err,        \* <<e>> when collect returned Err(e), else <<>>
    snapshot,           \* <<self>> when a HardwareInfo exists, else <<>>
    results,            \* outcomes of the generate_unique_code calls on self
    other,              \* a second HardwareInfo, for comparisons
    other_results,      \* outcomes of the calls on it
    codes               \* outcomes of the finished runs, oldest first

vars == << target_os, networks, hw, run, pc, enumerated, network_interfaces, idx,
           fields, invoked, collect_err, snapshot, results, other, other_results,
           codes >>

machineVars == << target_os, networks, hw >>
collectVars == << enumerated, network_interfaces, idx, fields, invoked, collect_err >>

NoFields == [f \in FieldNames |-> <<>>]
NotInvoked == [f \in FieldNames |-> 0]

(***************************************************************************)
(* Direct calls of generate_unique_code on given snapshots                 *)
(***************************************************************************)
InitDerive ==
    /\ snapshot \in { <<s>> : s \in Snapshots }
    /\ other = <<>>
    /\ results = <<>> /\ other_results = <<>>
    /\ pc = "derive"
    /\ target_os = "linux" /\ networks = {} /\ hw = Machine("linux", BaseValues, << <<79>> >>, << <<49>> >>)
    /\ run = 1 /\ codes = <<>>
    /\ enumerated = <<>> /\ network_interfaces = <<>> /\ idx = 1
    /\ fields = NoFields /\ invoked = NotInvoked /\ collect_err = <<>>

\* self.generate_unique_code(); &self is not changed.
GenerateUniqueCode ==
    /\ pc = "derive"
    /\ Len(results) < MaxCalls
    /\ results' = Append(results, generate_unique_code(snapshot[1]))
    /\ UNCHANGED << machineVars, collectVars, run, pc, snapshot, other,
                    other_results, codes >>

NextDerive == GenerateUniqueCode

SpecDerive == InitDerive /\ [][NextDerive]_vars

(***************************************************************************)
(* Calls of generate_unique_code on two snapshots, to compare the results  *)
(***************************************************************************)
\* The snapshots that are compared: the board serial may be missing, the
\* interface differs in presence and in name, and the ':' moves between the
\* CPU id and the product name.
PairSnapshots ==
    { HardwareInfo(serial, uuid, interfaces, cp[1], cp[2], <<100>>, <<>>) :
        serial \in SerialValues, uuid \in SerialValues \ { <<>> },
        interfaces \in { <<>>, << NetworkInfo(en0, MacA, TRUE) >>,
                         << NetworkInfo(wlan0, MacA, TRUE) >> },
        cp \in { << <<48>>, <<>> >>, << <<48, Colon>>, <<>> >>,
                 << <<48>>, <<Colon>> >> } }

InitPair ==
    /\ snapshot \in { <<s>> : s \in PairSnapshots }
    /\ other \in { <<s>> : s \in PairSnapshots }
    /\ results = <<>> /\ other_results = <<>>
    /\ pc = "compare"
    /\ target_os = "linux" /\ networks = {} /\ hw = Machine("linux", BaseValues, << <<79>> >>, << <<49>> >>)
    /\ run = 1 /\ codes = <<>>
    /\ enumerated = <<>> /\ network_interfaces = <<>> /\ idx = 1
    /\ fields = NoFields /\ invoked = NotInvoked /\ collect_err = <<>>

\* One call on each of the two snapshots.
GenerateBoth ==
    /\ pc = "compare"
    /\ results = <<>>
    /\ results' = << generate_unique_code(snapshot[1]) >>
    /\ other_results' = << generate_unique_code(other[1]) >>
    /\ UNCHANGED << machineVars, collectVars, run, pc, snapshot, other, codes >>

NextPair == GenerateBoth

SpecPair == InitPair /\ [][NextPair]_vars

(***************************************************************************)
(* One call of one get_* function on a given source                        *)
(***************************************************************************)
InitProbe ==
    /\ target_os \in OSes
    /\ idx \in DOMAIN FieldOrder
    /\ networks = {}
    /\ hw \in { [Machine(target_os, BaseValues, << <<79>> >>, << <<49>> >>)
                    EXCEPT ![FieldOrder[idx]] = text] :
                text \in ProbeTexts(ProbeRule(target_os, FieldOrder[idx])) }
    /\ run = 1 /\ codes = <<>>
    /\ pc = "probe"
    /\ enumerated = <<>> /\ network_interfaces = <<>>
    /\ fields = NoFields /\ invoked = NotInvoked /\ collect_err = <<>>
    /\ snapshot = <<>> /\ results = <<>>
    /\ other = <<>> /\ other_results = <<>>

\* The source is read and the function returns Ok(value).
GetField ==
    /\ pc = "probe"
    /\ fields' = [fields EXCEPT ![FieldOrder[idx]] =
                     ProbeValue(target_os, FieldOrder[idx], hw)]
    /\ invoked' = [invoked EXCEPT ![FieldOrder[idx]] = @ + 1]
    /\ pc' = "probed"
    /\ UNCHANGED << machineVars, run, enumerated, network_interfaces, idx,
                    collect_err, snapshot, results, other, other_results, codes >>

\* The file or process cannot be read and `?` returns the error.
GetFieldIoError ==
    /\ pc = "probe"
    /\ SourceKind(target_os, FieldOrder[idx]) # "none"
    /\ invoked' = [invoked EXCEPT ![FieldOrder[idx]] = @ + 1]
    /\ collect_err' = << ProbeError(target_os, FieldOrder[idx]) >>
    /\ pc' = "probe_failed"
    /\ UNCHANGED << machineVars, run, enumerated, network_interfaces, idx, fields,
                    snapshot, results, other, other_results, codes >>

NextProbe ==
    \/ GetField
    \/ GetFieldIoError

SpecProbe == InitProbe /\ [][NextProbe]_vars

(***************************************************************************)
(* main: collect, then generate_unique_code, MaxRuns times on one machine  *)
(***************************************************************************)
Init ==
    /\ target_os \in OSes
    /\ networks \in { S \in SUBSET Candidates : Cardinality(S) <= MaxInterfaces }
    /\ hw \in Machines(target_os)
    /\ run = 1 /\ codes = <<>>
    /\ pc = "start"
    /\ enumerated = <<>> /\ network_interfaces = <<>> /\ idx = 1
    /\ fields = NoFields /\ invoked = NotInvoked /\ collect_err = <<>>
    /\ snapshot = <<>> /\ results = <<>>
    /\ other = <<>> /\ other_results = <<>>

\* collect, lines 36-58: the interfaces are visited in whatever order the
\* map yields them, then truncated and sorted.
CollectNetworks ==
    /\ pc = "start"
    /\ \E order \in Orders(networks) :
          /\ enumerated' = order
          /\ network_interfaces' = SelectInterfaces(order)
    /\ pc' = "probing"
    /\ UNCHANGED << machineVars, run, idx, fields, invoked, collect_err, snapshot,
                    results, other, other_results, codes >>

\* The next field initialiser runs and its source is read.
ProbeOk ==
    /\ pc = "probing"
    /\ idx <= Len(FieldOrder)
    /\ LET f == FieldOrder[idx]
       IN /\ fields' = [fields EXCEPT ![f] = ProbeValue(target_os, f, hw)]
          /\ invoked' = [invoked EXCEPT ![f] = @ + 1]
    /\ idx' = idx + 1
    /\ UNCHANGED << machineVars, run, pc, enumerated, network_interfaces,
                    collect_err, snapshot, results, other, other_results, codes >>

\* Variant: the error is recorded and the remaining initialisers still run.
ProbeFailContinue ==
    /\ pc = "probing"
    /\ idx <= Len(FieldOrder)
    /\ LET f == FieldOrder[idx]
       IN /\ SourceKind(target_os, f) # "none"
          /\ invoked' = [invoked EXCEPT ![f] = @ + 1]
          /\ collect_err' = << ProbeError(target_os, f) >>
    /\ idx' = idx + 1
    /\ UNCHANGED << machineVars, run, pc, enumerated, network_interfaces, fields,
                    snapshot, results, other, other_results, codes >>

\* The next field initialiser runs and its file or process cannot be read:
\* `?` returns the error from collect.
ProbeFail ==
    /\ pc = "probing"
    /\ idx <= Len(FieldOrder)
    /\ LET f == FieldOrder[idx]
       IN /\ SourceKind(target_os, f) # "none"
          /\ invoked' = [invoked EXCEPT ![f] = @ + 1]
          /\ collect_err' = << ProbeError(target_os, f) >>
    /\ pc' = "collect_failed"
    /\ UNCHANGED << machineVars, run, enumerated, network_interfaces, idx, fields,
                    snapshot, results, other, other_results, codes >>

\* Ok(Self { ... }) once every initialiser has a value.
CollectOk ==
    /\ pc = "probing"
    /\ idx = Len(FieldOrder) + 1
    /\ snapshot' = << [f \in FieldNames \cup {"network_interfaces"} |->
                         IF f = "network_interfaces" THEN network_interfaces
                         ELSE fields[f]] >>
    /\ pc' = "collected"
    /\ UNCHANGED << machineVars, run, collectVars, results, other, other_results,
                    codes >>

\* main, lines 23-29.
MainGenerate ==
    /\ pc = "collected"
    /\ results' = << generate_unique_code(snapshot[1]) >>
    /\ pc' = "generated"
    /\ UNCHANGED << machineVars, run, collectVars, snapshot, other, other_results,
                    codes >>

\* main returns: Err(e) after a failed collect (lines 13-16), otherwise the
\* outcome of generate_unique_code.
MainReturn ==
    /\ pc \in { "collect_failed", "generated" }
    /\ codes' = Append(codes, [collected |-> snapshot # <<>>, results |-> results])
    /\ pc' = "exited"
    /\ UNCHANGED << machineVars, run, collectVars, snapshot, results, other,
                    other_results >>

\* The program is run again on the same machine.
StartRun ==
    /\ pc = "exited"
    /\ run < MaxRuns
    /\ run' = run + 1
    /\ pc' = "start"
    /\ enumerated' = <<>> /\ network_interfaces' = <<>> /\ idx' = 1
    /\ fields' = NoFields /\ invoked' = NotInvoked /\ collect_err' = <<>>
    /\ snapshot' = <<>> /\ results' = <<>>
    /\ UNCHANGED << machineVars, other, other_results, codes >>

Next ==
    \/ CollectNetworks
    \/ ProbeOk
    \/ ProbeFail
    \/ CollectOk
    \/ MainGenerate
    \/ MainReturn
    \/ StartRun

Spec == Init /\ [][Next]_vars

(***************************************************************************)
(* Properties                                                              *)
(***************************************************************************)

\* C1: generate_unique_code fails, with the missing-critical-data error and
\* before the hasher is created, exactly when the board serial or the board
\* UUID is empty; whatever the other fields hold, two non-empty values give
\* Ok(code).
C1_CriticalFieldGate ==
    \A i \in DOMAIN results :
        LET r == results[i]
            self == snapshot[1]
            missing == Len(self.motherboard_serial) = 0 \/ Len(self.motherboard_uuid) = 0
        IN /\ r.ok <=> ~missing
           /\ missing => r.err = MissingCriticalData /\ ~r.hashed /\ r.updates = <<>>
           /\ ~missing => r.hashed /\ Len(r.code) > 0

\* The serial is empty and every other hashed field, the interface list
\* included, is populated: the call has failed.
C1_Witness ==
    /\ pc = "derive" /\ results # <<>>
    /\ snapshot[1].motherboard_serial = <<>>
    /\ snapshot[1].motherboard_uuid = <<97>>
    /\ snapshot[1].network_interfaces = << NetworkInfo(en0, MacA, TRUE) >>
    /\ snapshot[1].motherboard_product_name # <<>>
    /\ snapshot[1].disk_model # <<>>
    /\ ~results[1].ok

\* The bytes the claim lists for a snapshot with at most one interface.
ExpectedInput(self) ==
    LET ifs == self.network_interfaces
        mac == IF Len(ifs) = 1 /\ ifs[1].is_up /\ Len(ifs[1].mac_address) > 0
               THEN ifs[1].mac_address ELSE <<>>
    IN self.motherboard_serial \o self.motherboard_uuid \o mac \o <<255>>
         \o self.cpu_physical_id \o <<58>> \o self.motherboard_product_name
         \o <<58>> \o self.disk_model

\* C2: when the gate passes, the hasher is fed serial, UUID, the MAC of the
\* single interface if it is up and its MAC is non-empty, the byte 0xFF and
\* "cpu_physical_id:motherboard_product_name:disk_model", in that order and
\* nothing else; the separator and the secondary string are the last two
\* updates of the one hasher.
C2_HashInput ==
    \A i \in DOMAIN results :
        LET r == results[i]
            self == snapshot[1]
        IN (r.ok /\ Len(self.network_interfaces) <= 1) =>
              /\ Flatten(r.updates) = ExpectedInput(self)
              /\ Len(r.updates) >= 4
              /\ r.updates[Len(r.updates) - 1] = <<255>>
              /\ r.updates[1] = self.motherboard_serial
              /\ r.updates[2] = self.motherboard_uuid

\* A snapshot whose interface is down (its MAC is left out) has been hashed.
C2_Witness ==
    /\ pc = "derive" /\ results # <<>> /\ results[1].ok
    /\ snapshot[1].network_interfaces = << NetworkInfo(en0, MacA, FALSE) >>
    /\ snapshot[1].motherboard_product_name = <<58>>
    /\ Len(results[1].updates) = 4

\* The i-th (1..32) character of the lowercase hex rendering of bytes.
LowerHexChar(bytes, i) ==
    LET byte == bytes[(i + 1) \div 2]
        nibble == IF i % 2 = 1 THEN byte \div 16 ELSE byte % 16
    IN << 48, 49, 50, 51, 52, 53, 54, 55, 56, 57, 97, 98, 99, 100, 101, 102 >>[nibble + 1]

\* C5: every Ok code is 19 characters, '-' at positions 5, 10 and 15, and
\* its 16 other characters are, in order, the first 16 characters of the
\* lowercase hex rendering of the 16-byte digest.
C5_CodeFormat ==
    \A i \in DOMAIN results :
        LET r == results[i]
        IN r.ok =>
              /\ Len(r.digest) = 16
              /\ Len(r.code) = 19
              /\ \A k \in { 5, 10, 15 } : r.code[k] = 45
              /\ \A k \in 1..16 :
                    r.code[k + ((k - 1) \div 4)] = LowerHexChar(r.digest, k)

\* A code with a letter digit in it has been produced.
C5_Witness ==
    /\ pc = "derive" /\ results # <<>> /\ results[1].ok
    /\ \E k \in 1..19 : results[1].code[k] >= 97

\* The fields generate_unique_code reads.
HashedFields(self) ==
    << self.motherboard_serial, self.motherboard_uuid,
       [i \in DOMAIN self.network_interfaces |->
           << self.network_interfaces[i].mac_address, self.network_interfaces[i].is_up >>],
       self.cpu_physical_id, self.motherboard_product_name, self.disk_model >>

\* What a call returns to its caller.
Returned(r) == << r.ok, r.code, r.err >>

\* C6: two snapshots that agree on serial, UUID, the interfaces' MAC and
\* is_up, cpu_physical_id, product name and disk model get the identical
\* result, whatever their other fields hold (two calls on equal snapshots
\* included), and a call changes neither snapshot.
C6_PureFunction ==
    /\ [](results # <<>> /\ other_results # <<>>
            /\ HashedFields(snapshot[1]) = HashedFields(other[1])
          => Returned(results[1]) = Returned(other_results[1]))
    /\ [][snapshot' = snapshot /\ other' = other]_vars

\* Two snapshots that differ only in the interface's name and type have
\* been given the same Ok code.
C6_Witness ==
    /\ pc = "compare" /\ results # <<>> /\ other_results # <<>>
    /\ snapshot[1].network_interfaces = << NetworkInfo(en0, MacA, TRUE) >>
    /\ other[1].network_interfaces = << NetworkInfo(wlan0, MacA, TRUE) >>
    /\ HashedFields(snapshot[1]) = HashedFields(other[1])
    /\ results[1].ok /\ results[1].code = other_results[1].code

\* other is snapshot with board serial and board UUID exchanged, both being
\* different non-empty strings.
SerialUuidExchanged ==
    /\ results # <<>> /\ other_results # <<>>
    /\ snapshot[1].motherboard_serial # <<>> /\ snapshot[1].motherboard_uuid # <<>>
    /\ snapshot[1].motherboard_serial # snapshot[1].motherboard_uuid
    /\ other[1] = [snapshot[1] EXCEPT !.motherboard_serial = snapshot[1].motherboard_uuid,
                                      !.motherboard_uuid = snapshot[1].motherboard_serial]

\* C7 as stated: exchanging two different non-empty values of board serial
\* and board UUID changes the bytes fed to the digest and the code.
C7_ExchangeAlwaysChanges ==
    SerialUuidExchanged =>
        /\ Flatten(results[1].updates) # Flatten(other_results[1].updates)
        /\ results[1].code # other_results[1].code

\* C7, amended: the exchange changes the bytes fed to the digest exactly
\* when serial+UUID and UUID+serial are different strings, which is so
\* whenever the two have the same length; then the code changes as well (for
\* the inputs of the model), and otherwise the code stays the same.
C7_ExchangeChangesUnlessCommuting ==
    SerialUuidExchanged =>
        LET serial == snapshot[1].motherboard_serial
            uuid == snapshot[1].motherboard_uuid
            changed == Flatten(results[1].updates) # Flatten(other_results[1].updates)
        IN /\ changed <=> (serial \o uuid # uuid \o serial)
           /\ Len(serial) = Len(uuid) => changed
           /\ changed <=> results[1].code # other_results[1].code

\* Serial "a" and UUID "b" have been exchanged and the code has changed.
C7_Witness ==
    /\ SerialUuidExchanged
    /\ snapshot[1].motherboard_serial = <<97>>
    /\ snapshot[1].motherboard_uuid = <<98>>
    /\ results[1].ok /\ other_results[1].ok
    /\ results[1].code # other_results[1].code

\* The MAC a snapshot contributes to the hash.
ContributedMac(self) ==
    LET ifs == self.network_interfaces
    IN IF Len(ifs) = 1 /\ ifs[1].is_up THEN ifs[1].mac_address ELSE <<>>

IdentityTuple(self) ==
    << self.motherboard_serial, self.motherboard_uuid, ContributedMac(self),
       self.cpu_physical_id, self.motherboard_product_name, self.disk_model >>

\* C8 as stated: snapshots that differ in serial, UUID, contributed MAC,
\* cpu_physical_id, product name or disk model are fed to the digest as
\* different byte sequences.
C8_InputInjective ==
    (results # <<>> /\ other_results # <<>> /\ results[1].ok /\ other_results[1].ok
        /\ IdentityTuple(snapshot[1]) # IdentityTuple(other[1]))
    => Flatten(results[1].updates) # Flatten(other_results[1].updates)

\* C8, amended: two snapshots are fed to the digest as the same byte
\* sequence exactly when they agree on the string serial+UUID+MAC and on the
\* string "cpu_physical_id:product_name:disk_model"; the bytes 0xFF keeps
\* these two strings apart, but not the fields inside each of them.
C8_InputDeterminesJoinedStrings ==
    (results # <<>> /\ other_results # <<>> /\ results[1].ok /\ other_results[1].ok)
    => LET a == IdentityTuple(snapshot[1])
           b == IdentityTuple(other[1])
       IN (Flatten(results[1].updates) = Flatten(other_results[1].updates))
          <=> /\ a[1] \o a[2] \o a[3] = b[1] \o b[2] \o b[3]
              /\ a[4] \o <<58>> \o a[5] \o <<58>> \o a[6]
                   = b[4] \o <<58>> \o b[5] \o <<58>> \o b[6]

\* Two snapshots with different serial and UUID ("a","aa" and "aa","a") and
\* a ':' on different sides of the CPU id / product name boundary have been
\* fed to the digest as the same bytes.
C8_Witness ==
    /\ results # <<>> /\ other_results # <<>> /\ results[1].ok /\ other_results[1].ok
    /\ snapshot[1].motherboard_serial = <<97>> /\ snapshot[1].motherboard_uuid = <<97, 97>>
    /\ other[1].motherboard_serial = <<97, 97>> /\ other[1].motherboard_uuid = <<97>>
    /\ snapshot[1].cpu_physical_id = <<48, 58>> /\ other[1].cpu_physical_id = <<48>>
    /\ Flatten(results[1].updates) = Flatten(other_results[1].updates)
    /\ results[1].code = other_results[1].code

\* The interfaces of the machine that pass collect's filter.
Qualifying ==
    { n \in networks :
        /\ n.name \in { en0, eth0, enp0s1 }
        /\ Len(n.mac_address) > 0
        /\ n.mac_address # MacOf(48) }

\* C3: when two or more interfaces qualify, the snapshot collect returns
\* holds the one whose MAC is smallest in string order, whatever the order
\* of enumeration.
C3_SmallestMacRetained ==
    (pc = "collected" /\ Cardinality(Qualifying) >= 2) =>
        /\ Len(snapshot[1].network_interfaces) = 1
        /\ \A n \in Qualifying :
              ~StrLess(n.mac_address, snapshot[1].network_interfaces[1].mac_address)

\* C4: any two runs on the machine in which collect succeeded end with the
\* same outcome of generate_unique_code.
C4_SameCodeAcrossRuns ==
    \A i, j \in DOMAIN codes :
        (codes[i].collected /\ codes[j].collected) =>
            /\ codes[i].results[1].ok = codes[j].results[1].ok
            /\ codes[i].results[1].code = codes[j].results[1].code

\* Position of a field in the order of evaluation.
FieldIndex(f) == CHOOSE i \in DOMAIN FieldOrder : FieldOrder[i] = f

\* C9: in a run, every probe is invoked at most once and only after all
\* probes before it; once a probe has failed, no later probe is invoked, no
\* snapshot exists and generate_unique_code is not called; a call of
\* generate_unique_code happens only on a snapshot for which every probe
\* was invoked once and none failed.
C9_FailFast ==
    /\ \A f \in FieldNames : invoked[f] <= 1
    /\ \A i \in DOMAIN FieldOrder :
          invoked[FieldOrder[i]] = 1 => \A j \in 1..(i - 1) : invoked[FieldOrder[j]] = 1
    /\ collect_err # <<>> =>
          /\ snapshot = <<>> /\ results = <<>>
          /\ invoked[collect_err[1].field] = 1
          /\ \A j \in DOMAIN FieldOrder :
                j > FieldIndex(collect_err[1].field) => invoked[FieldOrder[j]] = 0
    /\ snapshot # <<>> => collect_err = <<>> /\ \A f \in FieldNames : invoked[f] = 1
    /\ results # <<>> => snapshot # <<>>

\* A run has ended after the third probe (disk_serial) failed: the twelve
\* probes after it never ran and nothing was derived.
C9_Witness ==
    /\ pc = "exited"
    /\ collect_err # <<>> /\ collect_err[1].field = "disk_serial"
    /\ invoked["cpu_info"] = 1 /\ invoked["motherboard_serial"] = 1
    /\ invoked["mac_address"] = 0 /\ invoked["bios_release_date"] = 0
    /\ snapshot = <<>> /\ results = <<>>
    /\ ~codes[Len(codes)].collected

\* C10: an error returned by collect is FileError when the failed probe
\* reads a file, CommandError when it runs a process, and otherwise
\* UnsupportedSystem.
C10_TypedCollectErrors ==
    collect_err # <<>> =>
        collect_err[1].type =
            (CASE collect_err[1].source = "file" -> "FileError"
               [] collect_err[1].source = "command" -> "CommandError"
               [] OTHER -> "UnsupportedSystem")

\* C11: in every snapshot collect returns, the interface list has at most
\* one element, exactly one when some interface of the machine qualifies;
\* every element is named en0, eth0 or enp0s1 exactly, has a MAC that is
\* neither empty nor 00:00:00:00:00:00, and is up.
C11_RetainedInterfaces ==
    snapshot # <<>> =>
        LET v == snapshot[1].network_interfaces
        IN /\ Len(v) <= 1
           /\ (Qualifying # {}) => Len(v) = 1
           /\ (Qualifying = {}) => Len(v) = 0
           /\ \A i \in DOMAIN v :
                 /\ v[i].name \in { en0, eth0, enp0s1 }
                 /\ v[i].name # wlan0
                 /\ v[i].mac_address # <<>>
                 /\ v[i].mac_address # MacOf(48)
                 /\ v[i].is_up = TRUE
                 /\ \E n \in Qualifying :
                       n.name = v[i].name /\ n.mac_address = v[i].mac_address

\* collect has returned a snapshot on a machine that exposes wlan0, an
\* enp0s1 with the all-zero MAC and en0: only en0 is retained.
C11_Witness ==
    /\ pc = "collected"
    /\ Cardinality(networks) = 3
    /\ \E n \in networks : n.name = wlan0
    /\ \E n \in networks : n.name = enp0s1 /\ n.mac_address = ZeroMac
    /\ Len(snapshot[1].network_interfaces) = 1
    /\ snapshot[1].network_interfaces[1].name = en0
    /\ snapshot[1].network_interfaces[1].is_up

\* A string that is empty, or has no whitespace at either end and no
\* newline inside.
TrimmedOrEmpty(v) ==
    \/ v = <<>>
    \/ /\ ~IsWhitespace(v[1])
       /\ ~IsWhitespace(v[Len(v)])
       /\ \A i \in DOMAIN v : v[i] # LF

\* C12: in every snapshot collect returns, on every OS and for every text
\* the sources hold, each string field (disk_serial, mac_address and the
\* OS name+version string included) is the empty string or a value with no
\* leading or trailing whitespace and no newline.
C12_FieldsTrimmedOrEmpty ==
    snapshot # <<>> => \A f \in FieldNames : TrimmedOrEmpty(snapshot[1][f])

\* The whole content after the first delimiter of the designated line,
\* trimmed; empty when there is no such line or no delimiter on it.
ContentAfterFirstDelimiter(rule, text) ==
    LET line == UnwrapOrEmpty(Find(Lines(text), rule.how, rule.key))
        i == IndexOf(line, rule.delim, 1)
    IN IF i = 0 THEN <<>> ELSE Trim(SubSeq(line, i + 1, Len(line)))

\* C13: a key/value probe whose source was read returns Ok with the whole
\* trimmed content after the first delimiter of the designated line, also
\* when that content holds the delimiter, and Ok("") when there is no such
\* line or no delimiter; it returns an error only when the read failed.
C13_KeyValueExtraction ==
    (pc \in { "probed", "probe_failed" }
        /\ ProbeRule(target_os, FieldOrder[idx]).kind = "key") =>
        /\ pc = "probed" =>
              /\ collect_err = <<>>
              /\ fields[FieldOrder[idx]] =
                    ContentAfterFirstDelimiter(ProbeRule(target_os, FieldOrder[idx]),
                                               hw[FieldOrder[idx]])
        /\ pc = "probe_failed" =>
              /\ collect_err # <<>>
              /\ collect_err[1].source \in { "file", "command" }

====
